---- MODULE Spec2Model ----
(***************************************************************************)
(* Model of news_monitor.py: the investor-relations page monitor.          *)
(*                                                                         *)
(* Strings are sequences of code points, so that str.lower() and Python's  *)
(* string ordering are computed and not assumed.  A link record is         *)
(* [title, url]; an anchor is [text, absolute], the visible text after     *)
(* whitespace collapsing and the href after urljoin (news_monitor.py       *)
(* lines 101-106), anchors with an empty href already skipped.             *)
(***************************************************************************)
EXTENDS Integers, Sequences, FiniteSets, TLC

MAX_LINKS_PER_COMPANY == 50

\* ------------------------------------------------------------------------
\* Bounds of the model
\* ------------------------------------------------------------------------
\* longest page enumerated exhaustively over SmallAnchors
MaxPageLen == 2
\* the large pages hold MAX_LINKS_PER_COMPANY .. MAX_LINKS_PER_COMPANY + BigExtra anchors
BigExtra == 2
\* longest previous/current link sequence handed to build_change_report
MaxDiffLen == 2

\* ------------------------------------------------------------------------
\* Strings
\* ------------------------------------------------------------------------
chr_lower(c) == IF c >= 65 /\ c <= 90 THEN c + 32 ELSE c

str_lower(s) == [k \in 1..Len(s) |-> chr_lower(s[k])]

\* a function on 1..n as the list of its values
AsList(f) == f \o <<>>

\* Python's str <: at the first position where the two differ the smaller code
\* point decides, and a proper prefix is smaller
StrLt(s, t) ==
    \E k \in 1..Len(t) :
        /\ k <= Len(s) + 1
        /\ \A j \in 1..(k - 1) : s[j] = t[j]
        /\ (k = Len(s) + 1 \/ s[k] < t[k])

\* k in s, for Python strings
IsSubstr(k, s) ==
    \E i \in 0..(Len(s) - Len(k)) : SubSeq(s, i + 1, i + Len(k)) = k

\* ------------------------------------------------------------------------
\* Link records and their ordering
\* ------------------------------------------------------------------------
Link(t, u) == [title |-> t, url |-> u]

Pair(item) == <<item.title, item.url>>

PairSet(links) == {Pair(links[k]) : k \in 1..Len(links)}

sort_key(item) == <<str_lower(item.title), str_lower(item.url)>>

KeyLt(a, b) == StrLt(a[1], b[1]) \/ (a[1] = b[1] /\ StrLt(a[2], b[2]))

KeyLe(a, b) == ~KeyLt(b, a)

\* list.sort(key=...) is stable: an element comes after the elements with a
\* smaller key and after the earlier elements with an equal key
list_sort(s) ==
    LET n == Len(s)
        key == AsList([i \in 1..n |-> sort_key(s[i])])
        rank == AsList([i \in 1..n |->
                   1 + Cardinality({j \in 1..n : \/ KeyLt(key[j], key[i])
                                                 \/ (key[j] = key[i] /\ j < i)})])
    IN  AsList([r \in 1..n |-> s[CHOOSE i \in 1..n : rank[i] = r]])

\* ------------------------------------------------------------------------
\* fetch_links, after the response has been parsed
\* ------------------------------------------------------------------------
keyword_match(kws, a) ==
    \/ kws = {}
    \/ \E k \in kws : \/ IsSubstr(k, str_lower(a.text))
                      \/ IsSubstr(k, str_lower(a.absolute))

\* the list `links` built by the loop over the anchors
collect_links(kws, page) ==
    LET Kept(a) == keyword_match(kws, a)
        kept == SelectSeq(page, Kept)
    IN  AsList([k \in 1..Len(kept) |->
            Link(IF kept[k].text # <<>> THEN kept[k].text ELSE kept[k].absolute,
                 kept[k].absolute)])

\* {(title, url): item for item in links}: one entry per pair, in the order
\* of the first occurrences
dedupe(links) ==
    LET n == Len(links)
        IsFirst(i) == \A j \in 1..(i - 1) : Pair(links[j]) # Pair(links[i])
        first == SelectSeq(AsList([i \in 1..n |-> i]), IsFirst)
    IN  AsList([r \in 1..Len(first) |-> links[first[r]]])

Take(s, n) == SubSeq(s, 1, IF Len(s) < n THEN Len(s) ELSE n)

normalize_capfirst(links) == list_sort(Take(dedupe(links), MAX_LINKS_PER_COMPANY))

normalize(links) == Take(list_sort(dedupe(links)), MAX_LINKS_PER_COMPANY)

fetch_links(kws, page) == normalize(collect_links(kws, page))

\* json.dumps(links, sort_keys=True, separators=(",", ":")) lists, in list
\* order, each record's title then its url; sha256 of distinct payloads is
\* taken to be distinct
digest_links(links) ==
    <<"sha256", [k \in 1..Len(links) |-> <<links[k].title, links[k].url>>]>>

\* ------------------------------------------------------------------------
\* build_change_report
\* ------------------------------------------------------------------------
\* sorted(S, key=...) of a set S: the set's iteration order is arbitrary, so
\* pairs with equal keys may come out in any order
RECURSIVE SortedOrders(_)
SortedOrders(S) ==
    IF S = {} THEN {<<>>}
    ELSE LET K(p) == <<str_lower(p[1]), str_lower(p[2])>>
             mins == {m \in S : \A x \in S : KeyLe(K(m), K(x))}
         IN  UNION {{<<Link(m[1], m[2])>> \o r : r \in SortedOrders(S \ {m})}
                    : m \in mins}

added_keepall(previous, current) == SortedOrders(PairSet(current))

build_change_report_added(previous, current) ==
    SortedOrders(PairSet(current) \ PairSet(previous))

build_change_report_removed(previous, current) ==
    SortedOrders(PairSet(previous) \ PairSet(current))

\* ------------------------------------------------------------------------
\* Inputs of the pure-function specifications
\* ------------------------------------------------------------------------
sN == <<78>>
sn == <<110>>
sP == <<80>>
sx == <<120>>
sy == <<121>>

Anchor(t, u) == [text |-> t, absolute |-> u]

SmallAnchors ==
    {Anchor(sN, sx), Anchor(sn, sx), Anchor(<<>>, sx), Anchor(sP, sy)}

RECURSIVE SeqsUpTo(_, _)
SeqsUpTo(S, n) ==
    IF n = 0 THEN {<<>>}
    ELSE LET shorter == SeqsUpTo(S, n - 1)
         IN  shorter \cup {Append(s, x) : s \in {t \in shorter : Len(t) = n - 1}, x \in S}

\* the k-th anchor of the large pages: two lower-case letters, all keys distinct
BigAnchor(k) == Anchor(<<97 + ((k - 1) \div 8), 97 + ((k - 1) % 8)>>, sx)

BigAsc(n) == [k \in 1..n |-> BigAnchor(k)]

BigDesc(n) == [k \in 1..n |-> BigAnchor(n + 1 - k)]

\* an upper-case twin of the anchor at the cap, ahead of the others
BigTwin(n) ==
    LET c == BigAnchor(MAX_LINKS_PER_COMPANY)
    IN  <<Anchor(<<c.text[1] - 32, c.text[2]>>, sx)>> \o BigAsc(n)

BigSizes == MAX_LINKS_PER_COMPANY..(MAX_LINKS_PER_COMPANY + BigExtra)

BigPages == UNION {{BigAsc(n), BigDesc(n), BigTwin(n)} : n \in BigSizes}

ExtractPages == SeqsUpTo(SmallAnchors, MaxPageLen) \cup BigPages

KeywordSets == {{}, {sn}}

DiffLinks == {Link(sN, sx), Link(sn, sx), Link(sP, sx), Link(sP, sy)}

DiffSeqs == SeqsUpTo(DiffLinks, MaxDiffLen)

\* Python's None, where a dict entry or a digest is expected
None == <<>>

NoException == "None"

\* ------------------------------------------------------------------------
\* Inputs of the orchestrator
\* ------------------------------------------------------------------------
Tickers == {"T1", "T2"}

\* the watchlist entry of a ticker; name and ir_url go with the ticker
Company(t) ==
    [ticker |-> t, include_keywords |-> IF t = "T2" THEN {sn} ELSE {}]

\* the configurations load_companies accepts: tickers are the unique key of
\* the watchlist
Watchlists ==
    {<<Company("T1")>>, <<Company("T2")>>,
     <<Company("T1"), Company("T2")>>, <<Company("T2"), Company("T1")>>}

MainPages ==
    {<<>>,
     <<Anchor(sN, sx)>>,
     <<Anchor(sP, sx)>>,
     <<Anchor(sN, sx), Anchor(sn, sx)>>,
     <<Anchor(sn, sx), Anchor(sN, sx)>>}

\* a GET answers with a page, or requests.get or raise_for_status raises
Responses == [ok : {TRUE}, page : MainPages] \cup {[ok |-> FALSE, page |-> <<>>]}

Webs == [Tickers -> Responses]

NoWeb == [t \in Tickers |-> [ok |-> FALSE, page |-> <<>>]]

Envs == [GMAIL_USERNAME : BOOLEAN, GMAIL_APP_PASSWORD : BOOLEAN]

Args == [notify_on_first_run : BOOLEAN, dry_run : BOOLEAN]

EmptyDict == [t \in {} |-> None]

NoFile == [exists |-> FALSE, companies |-> EmptyDict]

VARIABLES
    stateFile,      \* the State artifact on disk: [exists, companies]
    web,            \* what a GET of each company's page answers during the run
    args, env,      \* command line flags and credentials of the process
    companies, prior_state, next_state, changes,   \* locals of main
    i,              \* index in companies of the company the loop is at
    pc,             \* "idle", "loop", "report", "returned", "raised", "done"
    exc,            \* class of the exception that left main, or NoException
    failed_at,      \* the step of main that raised, or "none"
    exit_code, stdout, smtp_used, delivered,
    startFile,      \* the State artifact as it was when the run started
    followUp,       \* this run follows, on unchanged pages, a run that lost its report
    html1, html2, kw, links1, links2, epc,
    previous, current, added, removed, dpc

mainVars == <<stateFile, web, args, env, companies, prior_state, next_state, changes,
              i, pc, exc, failed_at, exit_code, stdout, smtp_used, delivered,
              startFile, followUp>>
extractVars == <<html1, html2, kw, links1, links2, epc>>
diffVars == <<previous, current, added, removed, dpc>>

vars == <<mainVars, extractVars, diffVars>>

MainIdle ==
    /\ stateFile = NoFile /\ startFile = NoFile
    /\ web = NoWeb
    /\ args = [notify_on_first_run |-> FALSE, dry_run |-> FALSE]
    /\ env = [GMAIL_USERNAME |-> FALSE, GMAIL_APP_PASSWORD |-> FALSE]
    /\ companies = <<>> /\ prior_state = EmptyDict /\ next_state = EmptyDict
    /\ changes = <<>> /\ i = 1
    /\ pc = "idle" /\ exc = NoException /\ failed_at = "none"
    /\ exit_code = 0 /\ stdout = "" /\ smtp_used = FALSE /\ delivered = FALSE
    /\ followUp = FALSE

ExtractIdle ==
    /\ html1 = <<>> /\ html2 = <<>> /\ kw = {}
    /\ links1 = <<>> /\ links2 = <<>> /\ epc = "off"

DiffIdle ==
    /\ previous = <<>> /\ current = <<>> /\ added = <<>> /\ removed = <<>> /\ dpc = "off"

\* ------------------------------------------------------------------------
\* SpecExtract: the extractor and the fingerprinter on two pages of one company
\* ------------------------------------------------------------------------
InitExtract ==
    /\ html1 \in ExtractPages
    /\ html2 \in ExtractPages
    /\ kw \in KeywordSets
    /\ links1 = <<>> /\ links2 = <<>>
    /\ epc = "fetch1"
    /\ DiffIdle /\ MainIdle

FetchFirst ==
    /\ epc = "fetch1"
    /\ links1' = fetch_links(kw, html1)
    /\ epc' = "fetch2"
    /\ UNCHANGED <<html1, html2, kw, links2, diffVars, mainVars>>

FetchSecond ==
    /\ epc = "fetch2"
    /\ links2' = fetch_links(kw, html2)
    /\ epc' = "done"
    /\ UNCHANGED <<html1, html2, kw, links1, diffVars, mainVars>>

NextExtract == FetchFirst \/ FetchSecond

SpecExtract == InitExtract /\ [][NextExtract]_vars

\* ------------------------------------------------------------------------
\* SpecDiff: the change detector on arbitrary link sequences
\* ------------------------------------------------------------------------
InitDiff ==
    /\ previous \in DiffSeqs
    /\ current \in DiffSeqs
    /\ added = <<>> /\ removed = <<>>
    /\ dpc = "call"
    /\ ExtractIdle /\ MainIdle

BuildChangeReport ==
    /\ dpc = "call"
    /\ dpc' = "returned"
    /\ added' \in build_change_report_added(previous, current)
    /\ removed' \in build_change_report_removed(previous, current)
    /\ UNCHANGED <<previous, current, extractVars, mainVars>>

NextDiff == BuildChangeReport

SpecDiff == InitDiff /\ [][NextDiff]_vars

\* ------------------------------------------------------------------------
\* Spec: the orchestrator (main and the handler around it)
\* ------------------------------------------------------------------------
\* load_state: {} when the file is absent, and prior_state.get("companies", {})
load_state(file) == IF ~file.exists THEN EmptyDict ELSE file.companies

\* json.dump of next_state replaces the content of the file
save_state(state) == [exists |-> TRUE, companies |-> state]

\* d.get(k)
dict_get(d, k) == IF k \in DOMAIN d THEN d[k] ELSE None

\* d[k] = v
dict_set(d, k, v) == [x \in DOMAIN d \cup {k} |-> IF x = k THEN v ELSE d[x]]

is_changed_any(previous_digest, digest) == previous_digest # digest

is_changed(previous_digest, digest) ==
    previous_digest # None /\ previous_digest # digest

\* the subclasses of requests.RequestException a failed GET raises
RequestExceptions == {"ConnectionError", "Timeout", "HTTPError"}

\* what smtplib raises when the connection, the login or the send fails
SmtpErrors == {"SMTPException", "OSError"}

exit_code_flat(e) == IF e = NoException THEN 0 ELSE 1

\* the handler around main: SystemExit(main()), 2 for a RequestException, 1
\* for any other exception
exit_code_for(e) ==
    IF e = NoException THEN 0
    ELSE IF e \in RequestExceptions THEN 2
    ELSE 1

Init ==
    /\ MainIdle
    /\ ExtractIdle
    /\ DiffIdle

Reset ==
    /\ next_state' = EmptyDict
    /\ changes' = <<>>
    /\ i' = 1
    /\ exc' = NoException /\ failed_at' = "none" /\ exit_code' = 0
    /\ stdout' = "" /\ smtp_used' = FALSE /\ delivered' = FALSE
    /\ startFile' = stateFile

\* a run starts: parse_args, load_companies, load_state, the empty next_state
StartRun ==
    /\ pc = "idle"
    /\ args' \in Args /\ env' \in Envs /\ web' \in Webs
    /\ companies' \in Watchlists
    /\ prior_state' = load_state(stateFile)
    /\ Reset
    /\ followUp' = FALSE
    /\ pc' = "loop"
    /\ UNCHANGED <<stateFile, extractVars, diffVars>>

\* the scheduler runs the program again on the same watchlist while no page
\* has changed, after a run whose report was not delivered
RunAgainUnchanged ==
    /\ pc = "done"
    /\ failed_at \in {"build_email", "send_email", "smtp"}
    /\ args' \in Args /\ env' \in Envs
    /\ prior_state' = load_state(stateFile)
    /\ Reset
    /\ followUp' = TRUE
    /\ pc' = "loop"
    /\ UNCHANGED <<stateFile, web, companies, extractVars, diffVars>>

\* load_companies raises: no config file, or no company in it
ConfigFail ==
    /\ pc = "idle"
    /\ args' \in Args
    /\ \E e \in {"FileNotFoundError", "ValueError"} : exc' = e
    /\ failed_at' = "config"
    /\ pc' = "raised"
    /\ UNCHANGED <<stateFile, web, env, companies, prior_state, next_state, changes, i,
                   exit_code, stdout, smtp_used, delivered, startFile, followUp,
                   extractVars, diffVars>>

FetchFail_saving ==
    /\ pc = "loop" /\ i <= Len(companies)
    /\ ~web[companies[i].ticker].ok
    /\ \E e \in RequestExceptions : exc' = e
    /\ failed_at' = "fetch"
    /\ pc' = "raised"
    /\ stateFile' = save_state(next_state)
    /\ UNCHANGED <<web, args, env, companies, prior_state, next_state,
                   changes, i, exit_code, stdout, smtp_used, delivered, startFile,
                   followUp, extractVars, diffVars>>

\* the fetch of the company at hand raises
FetchFail ==
    /\ pc = "loop" /\ i <= Len(companies)
    /\ ~web[companies[i].ticker].ok
    /\ \E e \in RequestExceptions : exc' = e
    /\ failed_at' = "fetch"
    /\ pc' = "raised"
    /\ UNCHANGED <<stateFile, web, args, env, companies, prior_state, next_state,
                   changes, i, exit_code, stdout, smtp_used, delivered, startFile,
                   followUp, extractVars, diffVars>>

\* one pass of the loop over the companies, the fetch having succeeded
LoopStep ==
    /\ pc = "loop" /\ i <= Len(companies)
    /\ web[companies[i].ticker].ok
    /\ LET company == companies[i]
           links == fetch_links(company.include_keywords, web[company.ticker].page)
           digest == digest_links(links)
           previous_entry == dict_get(prior_state, company.ticker)
           previous_digest == IF previous_entry # None THEN previous_entry.digest ELSE None
           previous_links == IF previous_entry # None THEN previous_entry.links ELSE <<>>
           is_first_run == previous_entry = None
           changed == is_changed(previous_digest, digest)
       IN  /\ next_state' = dict_set(next_state, company.ticker,
                                     [digest |-> digest, links |-> links])
           /\ IF changed \/ (is_first_run /\ args.notify_on_first_run)
              THEN \E a \in build_change_report_added(previous_links, links),
                      r \in build_change_report_removed(previous_links, links) :
                       changes' = Append(changes, [ticker |-> company.ticker,
                                                   added |-> a, removed |-> r])
              ELSE changes' = changes
    /\ i' = i + 1
    /\ UNCHANGED <<stateFile, web, args, env, companies, prior_state, pc, exc,
                   failed_at, exit_code, stdout, smtp_used, delivered, startFile,
                   followUp, extractVars, diffVars>>

PersistRest ==
    /\ pc' = "report"
    /\ UNCHANGED <<web, args, env, companies, prior_state, next_state, changes, i,
                   exc, failed_at, exit_code, stdout, smtp_used, delivered,
                   startFile, followUp, extractVars, diffVars>>

Persist_merge ==
    /\ pc = "loop" /\ i > Len(companies)
    /\ stateFile' = save_state([t \in DOMAIN prior_state \cup DOMAIN next_state |->
                                   IF t \in DOMAIN next_state THEN next_state[t]
                                   ELSE prior_state[t]])
    /\ PersistRest

Persist_after_report ==
    /\ pc = "loop" /\ i > Len(companies)
    /\ stateFile' = IF changes = <<>> THEN save_state(next_state) ELSE stateFile
    /\ PersistRest

\* the loop is over: save_state(state_path, next_state)
Persist ==
    /\ pc = "loop" /\ i > Len(companies)
    /\ stateFile' = save_state(next_state)
    /\ PersistRest

ReportRest ==
    UNCHANGED <<stateFile, web, args, env, companies, prior_state, next_state,
                changes, i, exit_code, startFile, followUp, extractVars, diffVars>>

\* if not changes: print, return 0
NoChanges ==
    /\ pc = "report" /\ changes = <<>>
    /\ stdout' = "No changes detected."
    /\ pc' = "returned"
    /\ UNCHANGED <<exc, failed_at, smtp_used, delivered>>
    /\ ReportRest

\* build_email: required_env("GMAIL_USERNAME") raises
BuildEmailFail ==
    /\ pc = "report" /\ changes # <<>>
    /\ ~env.GMAIL_USERNAME
    /\ exc' = "RuntimeError" /\ failed_at' = "build_email"
    /\ pc' = "raised"
    /\ UNCHANGED <<stdout, smtp_used, delivered>>
    /\ ReportRest

DryRun_sending ==
    /\ pc = "report" /\ changes # <<>>
    /\ env.GMAIL_USERNAME
    /\ args.dry_run
    /\ stdout' = "Dry run mode: would send this email"
    /\ smtp_used' = TRUE
    /\ pc' = "returned"
    /\ UNCHANGED <<exc, failed_at, delivered>>
    /\ ReportRest

\* the message is built and the dry-run flag is set: print it, return 0
DryRun ==
    /\ pc = "report" /\ changes # <<>>
    /\ env.GMAIL_USERNAME
    /\ args.dry_run
    /\ stdout' = "Dry run mode: would send this email"
    /\ pc' = "returned"
    /\ UNCHANGED <<exc, failed_at, smtp_used, delivered>>
    /\ ReportRest

\* send_email: required_env("GMAIL_APP_PASSWORD") raises
SendCredentialFail ==
    /\ pc = "report" /\ changes # <<>>
    /\ env.GMAIL_USERNAME
    /\ ~args.dry_run
    /\ ~env.GMAIL_APP_PASSWORD
    /\ exc' = "RuntimeError" /\ failed_at' = "send_email"
    /\ pc' = "raised"
    /\ UNCHANGED <<stdout, smtp_used, delivered>>
    /\ ReportRest

\* send_email: the connection, the login or the send raises
SendSmtpFail ==
    /\ pc = "report" /\ changes # <<>>
    /\ env.GMAIL_USERNAME
    /\ ~args.dry_run
    /\ env.GMAIL_APP_PASSWORD
    /\ smtp_used' = TRUE
    /\ \E e \in SmtpErrors : exc' = e
    /\ failed_at' = "smtp"
    /\ pc' = "raised"
    /\ UNCHANGED <<stdout, delivered>>
    /\ ReportRest

\* send_email succeeds: print the count, return 0
SendOk ==
    /\ pc = "report" /\ changes # <<>>
    /\ env.GMAIL_USERNAME
    /\ ~args.dry_run
    /\ env.GMAIL_APP_PASSWORD
    /\ smtp_used' = TRUE /\ delivered' = TRUE
    /\ stdout' = "Sent email"
    /\ pc' = "returned"
    /\ UNCHANGED <<exc, failed_at>>
    /\ ReportRest

\* the handler around main turns the outcome into the exit code
Exit ==
    /\ pc \in {"returned", "raised"}
    /\ exit_code' = exit_code_for(exc)
    /\ pc' = "done"
    /\ UNCHANGED <<stateFile, web, args, env, companies, prior_state, next_state,
                   changes, i, exc, failed_at, stdout, smtp_used, delivered,
                   startFile, followUp, extractVars, diffVars>>

\* the process is gone; only the State artifact remains
ProcessEnd ==
    /\ pc = "done"
    /\ pc' = "idle"
    /\ web' = NoWeb
    /\ args' = [notify_on_first_run |-> FALSE, dry_run |-> FALSE]
    /\ env' = [GMAIL_USERNAME |-> FALSE, GMAIL_APP_PASSWORD |-> FALSE]
    /\ companies' = <<>> /\ prior_state' = EmptyDict
    /\ Reset
    /\ followUp' = FALSE
    /\ UNCHANGED <<stateFile, extractVars, diffVars>>

Next ==
    \/ StartRun
    \/ RunAgainUnchanged
    \/ ConfigFail
    \/ FetchFail
    \/ LoopStep
    \/ Persist
    \/ NoChanges
    \/ BuildEmailFail
    \/ DryRun
    \/ SendCredentialFail
    \/ SendSmtpFail
    \/ SendOk
    \/ Exit
    \/ ProcessEnd

Spec == Init /\ [][Next]_vars

\* ------------------------------------------------------------------------
\* Claims about the extractor
\* ------------------------------------------------------------------------
Range(s) == {s[k] : k \in 1..Len(s)}

NoDuplicates(s) == \A j, k \in 1..Len(s) : j # k => Pair(s[j]) # Pair(s[k])

Qualifying(page) == PairSet(collect_links(kw, page))

Min(a, b) == IF a < b THEN a ELSE b

\* C8: the extractor returns min(cap, number of distinct qualifying pairs)
\* records, all of them qualifying pairs of the page, no pair twice, and no
\* dropped pair sorts before a kept one in the order of (lowercase title,
\* lowercase url); with at most cap distinct pairs it returns them all.
C8_CapKeepsSmallest ==
    epc \in {"fetch2", "done"} =>
        LET Q == Qualifying(html1)
            kept == PairSet(links1)
            K(p) == <<str_lower(p[1]), str_lower(p[2])>>
        IN  /\ Len(links1) = Min(Cardinality(Q), MAX_LINKS_PER_COMPANY)
            /\ NoDuplicates(links1)
            /\ kept \subseteq Q
            /\ \A p \in kept, d \in Q \ kept : KeyLe(K(p), K(d))
            /\ Cardinality(Q) <= MAX_LINKS_PER_COMPANY => kept = Q

C8_Witness ==
    /\ epc \in {"fetch2", "done"}
    /\ Cardinality(Qualifying(html1)) > MAX_LINKS_PER_COMPANY
    /\ Len(links1) = MAX_LINKS_PER_COMPANY
    /\ html1[1] # BigAnchor(1)

\* C4: two pages with the same set of qualifying (title, url) pairs yield the
\* same link sequence and the same digest, whatever the order of the anchors.
C4_OrderIndependent ==
    (epc = "done" /\ Qualifying(html1) = Qualifying(html2)) =>
        /\ links1 = links2
        /\ digest_links(links1) = digest_links(links2)

\* ------------------------------------------------------------------------
\* Claims about the change detector
\* ------------------------------------------------------------------------
\* C9: added holds exactly the pairs of current absent from previous and
\* removed exactly the pairs of previous absent from current, each once; the
\* two are disjoint and a pair present in both inputs is in neither.
C9_SetDifference ==
    dpc = "returned" =>
        /\ PairSet(added) = PairSet(current) \ PairSet(previous)
        /\ PairSet(removed) = PairSet(previous) \ PairSet(current)
        /\ NoDuplicates(added) /\ NoDuplicates(removed)
        /\ PairSet(added) \cap PairSet(removed) = {}
        /\ \A p \in PairSet(previous) \cap PairSet(current) :
               p \notin PairSet(added) /\ p \notin PairSet(removed)

\* a link whose title changed for the same URL: one removal plus one addition
C9_Witness ==
    /\ dpc = "returned"
    /\ previous = <<Link(sN, sx), Link(sP, sy)>>
    /\ current = <<Link(sP, sx), Link(sP, sy)>>
    /\ added = <<Link(sP, sx)>>
    /\ removed = <<Link(sN, sx)>>
\* ------------------------------------------------------------------------
\* Claims about the orchestrator
\* ------------------------------------------------------------------------
WatchedTickers == {companies[k].ticker : k \in 1..Len(companies)}

\* the snapshot this run extracts for the k-th company of the watchlist
Extracted(k) ==
    LET L == fetch_links(companies[k].include_keywords, web[companies[k].ticker].page)
    IN  [digest |-> digest_links(L), links |-> L]

Reported(t) == \E j \in 1..Len(changes) : changes[j].ticker = t

ReportLost == failed_at \in {"build_email", "send_email", "smtp"}

\* C1: when a page fetch fails the run ends with exit code 2, the companies
\* after the failing one are not processed, the State artifact is what it was
\* when the run started, nothing is printed and the transport is not used.
C1_FetchFailureAborts ==
    /\ failed_at = "fetch" =>
           /\ stateFile = startFile
           /\ ~smtp_used /\ ~delivered /\ stdout = ""
           /\ DOMAIN next_state = {companies[k].ticker : k \in 1..(i - 1)}
           /\ ~web[companies[i].ticker].ok
    /\ (failed_at = "fetch" /\ pc = "done") => exit_code = 2

\* the second company's fetch fails after the first one produced a change
C1_Witness ==
    /\ pc = "done" /\ failed_at = "fetch" /\ exit_code = 2
    /\ i = 2 /\ Len(changes) = 1
    /\ startFile.exists
    /\ startFile.companies # next_state

\* C2: once every fetch of a run has succeeded the State artifact holds
\* exactly the tickers of the watchlist, each with the digest and the links
\* extracted in this run, whatever the prior State held and whatever happens
\* to the report.
C2_StateReplaced ==
    (pc \in {"report", "returned", "raised", "done"} /\ failed_at \notin {"config", "fetch"}) =>
        /\ stateFile.exists
        /\ DOMAIN stateFile.companies = WatchedTickers
        /\ \A k \in 1..Len(companies) :
               stateFile.companies[companies[k].ticker] = Extracted(k)

\* no change detected, and the prior State held a ticker that left the watchlist
C2_Witness ==
    /\ pc = "done" /\ failed_at = "none" /\ changes = <<>>
    /\ startFile.exists
    /\ DOMAIN startFile.companies \ WatchedTickers # {}
    /\ DOMAIN stateFile.companies = WatchedTickers

\* C3: a processed company has a ChangeRecord exactly when its ticker had a
\* prior snapshot whose digest differs from the current one, or had none and
\* the notify-on-first-run flag is set; it never has two.
C3_ChangeRecordIff ==
    /\ \A k \in 1..Len(companies) :
           k < i =>
               LET t == companies[k].ticker
               IN  Reported(t) <=>
                       \/ t \in DOMAIN prior_state /\ prior_state[t].digest # Extracted(k).digest
                       \/ t \notin DOMAIN prior_state /\ args.notify_on_first_run
    /\ \A j1, j2 \in 1..Len(changes) : j1 # j2 => changes[j1].ticker # changes[j2].ticker

\* one ticker changed since its prior snapshot, the other is new with the flag off
C3_Witness ==
    /\ pc = "report" /\ Len(companies) = 2 /\ Len(changes) = 1
    /\ ~args.notify_on_first_run
    /\ changes[1].ticker \in DOMAIN prior_state
    /\ WatchedTickers \ DOMAIN prior_state # {}

\* C5: every ChangeRecord has at least one added or one removed link.
C5_NoEmptyChangeRecord ==
    \A j \in 1..Len(changes) : changes[j].added # <<>> \/ changes[j].removed # <<>>

\* C6 as claimed: exit code 0 on success, 2 on every network or transport
\* failure (page fetch or mail dispatch), 1 on any other error.
C6_ExitCodesAsClaimed ==
    pc = "done" =>
        /\ failed_at = "none" => exit_code = 0
        /\ failed_at \in {"fetch", "smtp"} => exit_code = 2
        /\ failed_at \in {"config", "build_email", "send_email"} => exit_code = 1

\* C6: exit code 0 on every successful run (no changes, dry run, sent), 2 on
\* every page fetch failure, 1 on any other error: configuration error,
\* missing credential, and a failure of the mail dispatch.
C6_ExitCodes ==
    pc = "done" =>
        /\ failed_at = "none" => exit_code = 0
        /\ failed_at = "fetch" => exit_code = 2
        /\ failed_at \in {"config", "build_email", "send_email", "smtp"} => exit_code = 1
        /\ exit_code = 0 => stdout # ""

C6_Witness ==
    /\ pc = "done" /\ failed_at = "smtp" /\ exit_code = 1 /\ smtp_used

\* C7 as claimed: with the dry-run flag set and a ChangeRecord produced by a
\* run whose fetches all succeeded, the message is printed, the transport is
\* not used and the exit code is 0.
C7_DryRunAsClaimed ==
    (pc = "done" /\ args.dry_run /\ changes # <<>> /\ failed_at # "fetch") =>
        /\ stdout = "Dry run mode: would send this email"
        /\ ~smtp_used /\ ~delivered
        /\ exit_code = 0

\* C7: the same when the sender credential GMAIL_USERNAME is set; when it is
\* not, the run ends with exit code 1 and nothing printed; the transport is
\* used in neither case.
C7_DryRun ==
    (pc = "done" /\ args.dry_run /\ changes # <<>> /\ failed_at # "fetch") =>
        /\ ~smtp_used /\ ~delivered
        /\ IF env.GMAIL_USERNAME
           THEN stdout = "Dry run mode: would send this email" /\ exit_code = 0
           ELSE stdout = "" /\ exit_code = 1

C7_Witness ==
    /\ pc = "done" /\ args.dry_run /\ changes # <<>> /\ env.GMAIL_USERNAME
    /\ ~env.GMAIL_APP_PASSWORD
    /\ stdout = "Dry run mode: would send this email" /\ exit_code = 0

\* C10: the State artifact holds the new snapshot from the moment the report
\* step starts and no failure of that step rolls it back; a following run on
\* unchanged pages and watchlist then produces no ChangeRecord and uses no
\* transport, so the change of the run that lost its report is not notified.
C10_PersistBeforeReport ==
    /\ (pc = "report" \/ ReportLost) =>
           stateFile = save_state(next_state)
    /\ ReportLost => changes # <<>> /\ ~delivered
    /\ followUp => changes = <<>> /\ ~smtp_used /\ ~delivered /\ failed_at = "none"

C10_Witness ==
    /\ followUp /\ pc = "done" /\ exit_code = 0
    /\ stdout = "No changes detected."
    /\ startFile = stateFile
====
